---------------------------- MODULE Spec2Model ----------------------------
(***************************************************************************)
(* Face-region masking pipeline of face_ersaser (applyGreyFaceMask and the *)
(* Home component that calls it), in each of the page variants the         *)
(* repository holds:                                                       *)
(*   "v1"  src/src/app/page.tsx:1-187    luma sample, paintFaceWithSkinColor*)
(*   "v2"  src/src/app/page.tsx:190-725  colour sample, fill, black erase   *)
(*   "v3"  src/src/app/page.tsx:727-997  desaturate, grey sample, fill      *)
(*   "p0a" src/unnamed/part_000:21-189   sampleSkinColor, paint, grey box   *)
(*   "p0b" src/unnamed/part_000:191-604  colour sample, fill, clearing erase*)
(*   "p1"  src/unnamed/part_001:1-276    colour sample, fill, clearing erase*)
(*                                                                         *)
(* Coordinates are integers counting 1/Sub of a pixel, so that landmark    *)
(* positions can be fractional.  A raster operation paints the pixels      *)
(* whose centre lies in the path (non-zero winding, no anti-aliasing).     *)
(***************************************************************************)
EXTENDS Integers, Sequences, FiniteSets, TLC

\* ------------------------------------------------------------------ bounds
\* Sub-pixel resolution of landmark coordinates (units per pixel).
Sub == 2
\* Width and height of every uploaded image, in pixels.
ImgW == 10
ImgH == 9
\* Number of uploads / captures one behaviour may start.
MaxInvocations == 2
MaxShares == 2

\* ------------------------------------------------------- program constants
ForeheadOffset50 == 50
ForeheadOffset60 == 60
CheekLeft == 3
CheekRight == 13
EyeSampleA == 43
EyeSampleB == 46

Variants == {"v1", "v2", "v3", "p0a", "p0b", "p1"}
Invs == 1..MaxInvocations

\* ----------------------------------------------------------------- numbers
\* The value of an arithmetic expression over an out-of-range typed-array read
\* (undefined + number): NaN, kept apart from every channel value.
NaN == -1

\* Math.round of the coordinate n/Sub: floor(x + 1/2).
MathRound(n) == (2 * n + Sub) \div (2 * Sub)

\* WebIDL conversion of the coordinate n/Sub to long (getImageData's sx, sy):
\* truncation toward zero.
ToLong(n) == IF n >= 0 THEN n \div Sub ELSE -((-n) \div Sub)

\* Math.round(s / k) for an integer sum s >= 0 of channel values.
RoundDiv(s, k) == (2 * s + k) \div (2 * k)

\* Storing s / 3 into a Uint8ClampedArray: round to nearest (s/3 is never a tie).
ClampedThird(s) == (s + 1) \div 3

\* ------------------------------------------------------------------ pixels
\* A pixel is <<R, G, B, A>>, each channel in 0..255.
Transparent == <<0, 0, 0, 0>>

\* The decoded source images an upload can carry: a uniform one and a
\* gradient, both fully opaque.
ImageKinds == {"flat", "grad"}

ImagePixel(kind, x, y) ==
    IF kind = "flat" THEN <<200, 150, 100, 255>>
    ELSE <<(x * 13) % 256, (y * 15 + 7) % 256, ((x + y) * 7 + 3) % 256, 255>>

NumPixels == ImgW * ImgH
PixelIdx == 0..(NumPixels - 1)
PX(k) == k % ImgW
PY(k) == k \div ImgW

\* ctx.drawImage(image, 0, 0) onto a fresh canvas of the image's size.
DrawImage(kind) == [k \in PixelIdx |-> ImagePixel(kind, PX(k), PY(k))]

\* A blank canvas (document.createElement('canvas')): transparent black.
BlankCanvas == [k \in PixelIdx |-> Transparent]

\* --------------------------------------------------------------- landmarks
\* A point is [x, y] in 1/Sub pixel; positions[i] of the source is
\* landmarks[i + 1] here.
Pt(x, y) == [x |-> x, y |-> y]

\* One frontal face in canonical 68-point order, in half pixels: jaw 0-16
\* from image-left to image-right, left brow 17-21, right brow 22-26 (each
\* with increasing x), nose 27-35, left eye 36-41, right eye 42-47, mouth
\* 48-67.
TemplateJaw ==
    << <<0,5>>, <<1,7>>, <<2,9>>, <<3,10>>, <<4,11>>, <<5,12>>, <<6,13>>, <<7,14>>,
       <<8,14>>, <<9,14>>, <<10,13>>, <<11,12>>, <<12,11>>, <<13,10>>, <<14,9>>,
       <<15,7>>, <<16,5>> >>
TemplateLeftBrow(shape) ==
    IF shape = "arched"
    THEN << <<2,3>>, <<3,2>>, <<4,2>>, <<5,2>>, <<6,3>> >>
    ELSE << <<2,3>>, <<3,3>>, <<4,3>>, <<5,3>>, <<6,3>> >>
TemplateRightBrow(shape) ==
    IF shape = "arched"
    THEN << <<10,3>>, <<11,2>>, <<12,2>>, <<13,2>>, <<14,3>> >>
    ELSE << <<10,3>>, <<11,3>>, <<12,3>>, <<13,3>>, <<14,3>> >>
TemplateNose ==
    << <<8,4>>, <<8,5>>, <<8,6>>, <<8,7>>, <<6,8>>, <<7,9>>, <<8,9>>, <<9,9>>, <<10,8>> >>
TemplateLeftEye == << <<2,5>>, <<3,4>>, <<5,4>>, <<6,5>>, <<5,6>>, <<3,6>> >>
TemplateRightEye == << <<10,5>>, <<11,4>>, <<13,4>>, <<14,5>>, <<13,6>>, <<11,6>> >>
TemplateMouth ==
    << <<5,11>>, <<6,10>>, <<7,10>>, <<8,10>>, <<9,10>>, <<10,10>>, <<11,11>>,
       <<10,12>>, <<9,12>>, <<8,12>>, <<7,12>>, <<6,12>>,
       <<6,11>>, <<7,11>>, <<8,11>>, <<9,11>>, <<10,11>>, <<9,11>>, <<8,11>>, <<7,11>> >>

Template(shape) ==
    TemplateJaw \o TemplateLeftBrow(shape) \o TemplateRightBrow(shape) \o TemplateNose
    \o TemplateLeftEye \o TemplateRightEye \o TemplateMouth

BrowShapes == {"arched", "flat"}
\* Where the face sits in the image (pixels): inside it, with the left cheek
\* beyond the left border, with the cheeks in the last row of pixels, and
\* low enough for the cheeks to leave the image.
FaceOffsets == {<<1, 1>>, <<-3, 1>>, <<1, 3>>, <<1, 4>>}
Fractions == 0..(Sub - 1)

\* The detection the landmark provider returns for a face: its 68 positions
\* and the detector's box (in 1/Sub pixel).
Face(shape, off, f) ==
    [landmarks |-> [i \in 1..68 |->
                      Pt((Sub * Template(shape)[i][1]) \div 2 + Sub * off[1] + f,
                         (Sub * Template(shape)[i][2]) \div 2 + Sub * off[2] + f)],
     box |-> [x |-> Sub * off[1] + f, y |-> Sub * (off[2] + 1) + f,
              width |-> Sub * 8, height |-> Sub * 6]]

AllFaces == {Face(sh, off, f) : sh \in BrowShapes, off \in FaceOffsets, f \in Fractions}
UIFaces == {Face("arched", <<1, 1>>, 0)}

\* Array.prototype.slice(a, b) on a sequence (0-based, end exclusive).
Slice(s, a, b) == SubSeq(s, a + 1, IF b < Len(s) THEN b ELSE Len(s))

\* Array.prototype.reverse.
Reverse(s) == [i \in 1..Len(s) |-> s[Len(s) + 1 - i]]

getJawOutline(lm) == Slice(lm, 0, 17)
getLeftEyeBrow(lm) == Slice(lm, 17, 22)
getRightEyeBrow(lm) == Slice(lm, 22, 27)
getNose(lm) == Slice(lm, 27, 36)
getLeftEye(lm) == Slice(lm, 36, 42)
getRightEye(lm) == Slice(lm, 42, 48)
getMouth(lm) == Slice(lm, 48, 68)

\* brow.map(p => ({ x: p.x, y: p.y - offset }))
Raise(pts, offset) == [i \in 1..Len(pts) |-> Pt(pts[i].x, pts[i].y - offset * Sub)]

\* ---------------------------------------------------------- region builder
\* v1: topContour = [...leftForehead, ...rightForehead.reverse()];
\*     fullContour = [...jaw, ...topContour.reverse()].
getFullFaceContourV1(lm) ==
    LET leftForehead == Raise(getLeftEyeBrow(lm), ForeheadOffset50)
        rightForehead == Raise(getRightEyeBrow(lm), ForeheadOffset50)
        topContour == leftForehead \o Reverse(rightForehead)
    IN  getJawOutline(lm) \o Reverse(topContour)

\* p0a: forehead = [...leftBrow raised, ...rightBrow reversed and raised];
\*      return [...jaw, ...forehead].
getFullFaceContourP0a(lm) ==
    LET forehead == Raise(getLeftEyeBrow(lm), ForeheadOffset50)
                    \o Raise(Reverse(getRightEyeBrow(lm)), ForeheadOffset50)
    IN  getJawOutline(lm) \o forehead

\* v2, v3, p0b, p1: faceRegion = [...leftBrow, ...rightBrow.reverse(), ...jaw.reverse()].
faceRegionOf(lm) ==
    LET jaw == getJawOutline(lm)
        leftBrow == Raise(getLeftEyeBrow(lm), ForeheadOffset60)
        rightBrow == Raise(getRightEyeBrow(lm), ForeheadOffset60)
    IN  leftBrow \o Reverse(rightBrow) \o Reverse(jaw)

\* The silhouette region each variant builds.
Silhouette(v, lm) ==
    CASE v = "v1" -> getFullFaceContourV1(lm)
      [] v = "p0a" -> getFullFaceContourP0a(lm)
      [] OTHER -> faceRegionOf(lm)

\* const mergePoints = (a, b) => [...a, ...b.reverse()]
mergePoints(a, b) == a \o Reverse(b)

leftEyeRegion(lm) == mergePoints(getLeftEye(lm), getLeftEyeBrow(lm))
rightEyeRegion(lm) == mergePoints(getRightEye(lm), getRightEyeBrow(lm))

\* ---------------------------------------------------------------- geometry
\* Twice the signed area of the triangle a, b, c.
Cross(a, b, c) == (b.x - a.x) * (c.y - a.y) - (c.x - a.x) * (b.y - a.y)

\* Centre of pixel k, and a path point, in 1/(2*Sub) pixel.
Centre(k) == Pt((2 * PX(k) + 1) * Sub, (2 * PY(k) + 1) * Sub)
Fine(p) == Pt(2 * p.x, 2 * p.y)

\* The closed subpath's i-th edge: from point i to the next, the last one
\* back to the first (closePath).
EdgeFrom(path, i) == path[i]
EdgeTo(path, i) == path[(i % Len(path)) + 1]

\* Contribution of the edge a -> b to the winding number around c.
WindEdge(a, b, c) ==
    IF a.y <= c.y /\ b.y > c.y /\ Cross(a, b, c) > 0 THEN 1
    ELSE IF a.y > c.y /\ b.y <= c.y /\ Cross(a, b, c) < 0 THEN -1
    ELSE 0

RECURSIVE WindSum(_, _, _)
WindSum(path, c, i) ==
    IF i > Len(path) THEN 0
    ELSE WindEdge(Fine(EdgeFrom(path, i)), Fine(EdgeTo(path, i)), c)
         + WindSum(path, c, i + 1)

\* Whether pixel k is painted by a fill of (or kept by a clip to) the closed
\* path, under the default non-zero winding rule.
InPath(path, k) == Len(path) >= 1 /\ WindSum(path, Centre(k), 1) # 0

\* ----------------------------------------------------------------- colours
\* CSS colour strings: `rgb(${r}, ${g}, ${b})` is <<"rgb", r, g, b>>, with a
\* channel printed as NaN when it is NaN.
RgbString(r, g, b) == <<"rgb", r, g, b>>
CssBlack == <<"black">>
CssGreyBox == <<"rgba", 128, 128, 128, 8>>
skinToneGreyV1 == <<"rgb", 200, 200, 200>>
skinToneGrey == <<"hex", 211, 211, 211>>

\* The canvas parses a colour string into <<R, G, B, A>>; <<>> when the string
\* is no CSS colour.
ParseColor(s) ==
    CASE s[1] = "black" -> <<0, 0, 0, 255>>
      [] s[1] = "hex" -> <<s[2], s[3], s[4], 255>>
      [] s[1] = "rgba" -> <<s[2], s[3], s[4], (s[5] * 255) \div 10>>
      [] OTHER -> IF s[2] = NaN \/ s[3] = NaN \/ s[4] = NaN THEN <<>>
                  ELSE <<s[2], s[3], s[4], 255>>

\* ctx.fillStyle = s: an invalid value is ignored and the style stays.
SetFillStyle(current, s) == IF ParseColor(s) = <<>> THEN current ELSE ParseColor(s)

\* A fresh context paints opaque black.
DefaultStyle == <<0, 0, 0, 255>>

\* source-over compositing of colour c onto pixel d.
Blend(c, d) ==
    IF c[4] = 255 THEN c
    ELSE LET a == c[4]
             outA == a + (d[4] * (255 - a)) \div 255
             ch(n) == IF outA = 0 THEN 0
                      ELSE RoundDiv(c[n] * a * 255 + d[n] * d[4] * (255 - a), 255 * outA)
         IN  <<ch(1), ch(2), ch(3), outA>>

\* ------------------------------------------------------------ colour sampler
\* ctx.getImageData(sx, sy, 1, 1).data: the pixel at the truncated
\* coordinates, transparent black outside the canvas.
GetImageData1(px, sx, sy) ==
    LET x == ToLong(sx)
        y == ToLong(sy)
    IN  IF x >= 0 /\ x < ImgW /\ y >= 0 /\ y < ImgH THEN px[y * ImgW + x]
        ELSE Transparent

\* function sampleSkinColor(ctx, x, y)
sampleSkinColor(px, x, y) ==
    LET pixel == GetImageData1(px, x, y)
    IN  RgbString(pixel[1], pixel[2], pixel[3])

\* data[idx + c] for idx = (y * canvas.width + x) * 4: undefined (NaN in the
\* sum) outside the array.
DataAt(data, x, y, c) ==
    LET k == y * ImgW + x
    IN  IF k >= 0 /\ k < NumPixels THEN data[k][c + 1] ELSE NaN

NAdd(a, b) == IF a = NaN \/ b = NaN THEN NaN ELSE a + b
NRound(s, n) == IF s = NaN THEN NaN ELSE RoundDiv(s, n)

\* SampleCheeksColour with the means truncated instead of rounded.
SampleCheeksTruncated(originalData, lm) ==
    LET x1 == MathRound(lm[CheekLeft + 1].x)
        y1 == MathRound(lm[CheekLeft + 1].y)
        x2 == MathRound(lm[CheekRight + 1].x)
        y2 == MathRound(lm[CheekRight + 1].y)
        sum(c) == NAdd(DataAt(originalData, x1, y1, c), DataAt(originalData, x2, y2, c))
        half(n) == IF n = NaN THEN NaN ELSE n \div 2
    IN  RgbString(half(sum(0)), half(sum(1)), half(sum(2)))

\* v2, p0b, p1: per-channel mean over positions[3] and positions[13], read
\* from the snapshot taken after drawImage.
SampleCheeksColour(originalData, lm) ==
    LET x1 == MathRound(lm[CheekLeft + 1].x)
        y1 == MathRound(lm[CheekLeft + 1].y)
        x2 == MathRound(lm[CheekRight + 1].x)
        y2 == MathRound(lm[CheekRight + 1].y)
        sum(c) == NAdd(DataAt(originalData, x1, y1, c), DataAt(originalData, x2, y2, c))
    IN  RgbString(NRound(sum(0), 2), NRound(sum(1), 2), NRound(sum(2), 2))

\* v3: mean of the red channel of the desaturated data at the two cheeks.
SampleCheeksGrey(data, lm) ==
    LET x1 == MathRound(lm[CheekLeft + 1].x)
        y1 == MathRound(lm[CheekLeft + 1].y)
        x2 == MathRound(lm[CheekRight + 1].x)
        y2 == MathRound(lm[CheekRight + 1].y)
        baseTone == NRound(NAdd(DataAt(data, x1, y1, 0), DataAt(data, x2, y2, 0)), 2)
    IN  RgbString(baseTone, baseTone, baseTone)

\* v1: total += (R + G + B) / 3 at positions[3], [43], [46];
\* baseTone = Math.round(total / 3).
SampleLuma(px, lm) ==
    LET rgbSum(i) == LET pixel == GetImageData1(px, lm[i + 1].x, lm[i + 1].y)
                     IN  pixel[1] + pixel[2] + pixel[3]
        baseTone == RoundDiv(rgbSum(CheekLeft) + rgbSum(EyeSampleA) + rgbSum(EyeSampleB), 9)
    IN  RgbString(baseTone, baseTone, baseTone)

\* p0a: landmarks.positions[3] || { x: canvas.width / 2, y: canvas.height / 2 }
SamplePoint(px, lm) ==
    LET cheekPoint == IF Len(lm) > CheekLeft THEN lm[CheekLeft + 1]
                      ELSE Pt((ImgW * Sub) \div 2, (ImgH * Sub) \div 2)
    IN  sampleSkinColor(px, cheekPoint.x, cheekPoint.y)

\* The landmark indices each variant's sampler reads.
SampleIndices(v) ==
    IF v = "v1" THEN {CheekLeft, EyeSampleA, EyeSampleB}
    ELSE IF v = "p0a" THEN {CheekLeft}
    ELSE {CheekLeft, CheekRight}

\* point.x / p.x on a position the landmarks do not have is a TypeError;
\* p0a alone falls back to the canvas centre.
SampleRaises(v, lm) == v # "p0a" /\ \E n \in SampleIndices(v) : n >= Len(lm)

\* The colour each variant samples; data is what the variant reads: the canvas
\* (v1, p0a), the snapshot (v2, p0b, p1) or the desaturated data (v3).
SampleColour(v, data, lm) ==
    CASE v = "v1" -> SampleLuma(data, lm)
      [] v = "p0a" -> SamplePoint(data, lm)
      [] v = "v3" -> SampleCheeksGrey(data, lm)
      [] OTHER -> SampleCheeksColour(data, lm)

\* ---------------------------------------------------------------- compositor
\* Desaturate with only data[i] assigned the average.
DesaturateRedOnly(px) ==
    [k \in PixelIdx |->
        <<ClampedThird(px[k][1] + px[k][2] + px[k][3]), px[k][2], px[k][3], px[k][4]>>]

\* Desaturate with a weighted (luminance) average in place of the unweighted one.
DesaturateWeighted(px) ==
    [k \in PixelIdx |->
        LET avg == (3 * px[k][1] + 6 * px[k][2] + px[k][3]) \div 10
        IN  <<avg, avg, avg, px[k][4]>>]

\* v3: data[i] = data[i + 1] = data[i + 2] = avg for every pixel, then
\* putImageData.
Desaturate(px) ==
    [k \in PixelIdx |->
        LET avg == ClampedThird(px[k][1] + px[k][2] + px[k][3])
        IN  <<avg, avg, avg, px[k][4]>>]

\* The path a fill loop builds: moveTo(r[0]) and then lineTo for every point
\* of forEach (r[0] again included), or for r[1..] in the indexed loops.
PathForEach(r) == <<r[1]>> \o r
PathIndexed(r) == r

\* ClipFillRect without the clip: fillRect paints the whole canvas.
FillRectUnclipped(px, path, colour) ==
    LET style == SetFillStyle(DefaultStyle, colour)
    IN  [k \in PixelIdx |-> Blend(style, px[k])]

\* save; clip(path); fillStyle = colour; fillRect(0, 0, width, height); restore.
ClipFillRect(px, path, colour) ==
    LET style == SetFillStyle(DefaultStyle, colour)
    IN  [k \in PixelIdx |-> IF InPath(path, k) THEN Blend(style, px[k]) ELSE px[k]]

\* p0a's paintFaceWithSkinColor: save; clip(region); fillStyle = colour;
\* fill(); restore.  fill() fills the context's current default path, to
\* which nothing was ever added (region is a separate Path2D).
ClipFillCurrentPath(px, path, colour) ==
    LET style == SetFillStyle(DefaultStyle, colour)
        currentPath == <<>>
    IN  [k \in PixelIdx |->
            IF InPath(path, k) /\ InPath(currentPath, k) THEN Blend(style, px[k])
            ELSE px[k]]

\* contour[0].x, faceRegion[0].x: reading a property of undefined is a
\* TypeError when the region has no point.
FillRaises(region) == Len(region) = 0

\* The silhouette fill of each variant.
FillSilhouette(v, px, region, colour) ==
    CASE v = "v1" -> ClipFillRect(px, PathIndexed(region), colour)
      [] v = "p0a" -> ClipFillCurrentPath(px, PathForEach(region), colour)
      [] OTHER -> ClipFillRect(px, PathForEach(region), colour)

\* p0a: ctx.fillStyle = 'rgba(128, 128, 128, 0.8)';
\*      ctx.fillRect(box.x, box.y, box.width, box.height * 0.7).
InBox(box, k) ==
    LET c == Centre(k)
    IN  /\ c.x >= 2 * box.x /\ c.x < 2 * (box.x + box.width)
        /\ c.y >= 2 * box.y /\ 10 * c.y < 20 * box.y + 14 * box.height
GreyBox(px, box) ==
    LET style == SetFillStyle(DefaultStyle, CssGreyBox)
    IN  [k \in PixelIdx |-> IF InBox(box, k) THEN Blend(style, px[k]) ELSE px[k]]

\* Whether the centre c is within half a line width (scale10/10 pixel) of
\* the segment a-b; joins are taken as round.
NearSegment(a, b, c, scale10) ==
    LET dx == b.x - a.x
        dy == b.y - a.y
        len2 == dx * dx + dy * dy
        dot == (c.x - a.x) * dx + (c.y - a.y) * dy
        r2 == (scale10 * Sub) * (scale10 * Sub)
        d2(p) == (c.x - p.x) * (c.x - p.x) + (c.y - p.y) * (c.y - p.y)
    IN  IF dot <= 0 THEN 25 * d2(a) <= r2
        ELSE IF dot >= len2 THEN 25 * d2(b) <= r2
        ELSE 25 * Cross(a, b, c) * Cross(a, b, c) <= r2 * len2

InStroke(path, k, scale10) ==
    \E i \in 1..Len(path) :
        NearSegment(Fine(EdgeFrom(path, i)), Fine(EdgeTo(path, i)), Centre(k), scale10)

\* v2: eraseRegionSmart(ctx, points, scaleFactor, fillColor = "black"):
\* the path is filled with fillColor; scaleFactor is not used.
eraseRegionSmartFill(px, points, scale10, fillColor) ==
    IF Len(points) < 2 THEN px
    ELSE LET style == SetFillStyle(DefaultStyle, fillColor)
         IN  [k \in PixelIdx |-> IF InPath(points, k) THEN Blend(style, px[k]) ELSE px[k]]

\* p0b, p1: eraseRegionSmart(ctx, points, scaleFactor) under
\* globalCompositeOperation 'destination-out': the path is stroked with
\* lineWidth 2 * scaleFactor and filled, which clears to transparent.
eraseRegionSmartClear(px, points, scale10) ==
    IF Len(points) < 2 THEN px
    ELSE [k \in PixelIdx |->
            IF InPath(points, k) \/ InStroke(points, k, scale10) THEN Transparent
            ELSE px[k]]

eraseRegionSmart(v, px, points, scale10) ==
    IF v = "v2" THEN eraseRegionSmartFill(px, points, scale10, CssBlack)
    ELSE eraseRegionSmartClear(px, points, scale10)

\* canvas.toDataURL('image/png'): the PNG of the canvas, which decodes to its
\* size and pixels.
toDataURL(px) == [width |-> ImgW, height |-> ImgH, data |-> px]

\* ------------------------------------------------------------------- state
VARIABLES
    variant,  \* the page variant this behaviour runs
    models,   \* face-api nets: "loading", "loaded" or "failed"
    home,     \* the state of the Home component and the last alert() text
    inv,      \* the uploads: each one's handler position and locals
    share,    \* handleShare: its calls, Home's sharing state, the cloud
    camera    \* capturePhotoDirectly: its position and the camera stream

vars == <<variant, models, home, inv, share, camera>>

\* Variants whose Home keeps isLoading and builds its own Image per upload.
LoadingVariants == {"v2", "v3", "p0b", "p1"}
\* Variants whose applyGreyFaceMask snapshots the canvas after drawImage.
SnapshotVariants == {"v2", "p0b", "p1"}
\* Variants that call eraseRegionSmart.
EraseVariants == {"v2", "p0b", "p1"}

\* useState initial values; image is image / selectedImage, <<>> is null
\* (part_000:21-189 keeps no skinColor).
\* The mount effect has already called setIsLoading(true) where there is one.
\* overlay is the <canvas> of overlayCanvasRef, <<>> while it is not
\* rendered (overlayCanvasRef.current is null).
InitialHome(v) ==
    [isLoading |-> (v \in LoadingVariants),
     image |-> <<>>,
     maskedImage |-> <<>>,
     skinColor |-> IF v = "v1" THEN skinToneGreyV1
                   ELSE IF v = "p0a" THEN <<>> ELSE skinToneGrey,
     alertMsg |-> <<>>,
     drawing |-> FALSE,
     overlay |-> <<>>]

\* A <canvas> element as the browser creates it: 300 x 150, blank, with a
\* context that strokes in black and has an empty path.  strokes is the set
\* of colours stroked onto it.
DefaultCanvasWidth == 300
DefaultCanvasHeight == 150
FreshOverlay ==
    [width |-> DefaultCanvasWidth, height |-> DefaultCanvasHeight, text |-> FALSE,
     strokes |-> {}, strokeStyle |-> DefaultStyle, path |-> FALSE]

\* {image ? (isLoading ? ... : maskedImage ? <canvas ref={overlayCanvasRef}>
OverlayRendered(h) == h.image # <<>> /\ ~h.isLoading /\ h.maskedImage # <<>>

\* React renders the state h a task has left: the overlay canvas is
\* created when it starts to be rendered, kept while it stays rendered and
\* dropped when it no longer is.
Commit(v, h) ==
    IF v \notin LoadingVariants THEN h
    ELSE IF ~OverlayRendered(h) THEN [h EXCEPT !.overlay = <<>>]
    ELSE IF h.overlay = <<>> THEN [h EXCEPT !.overlay = <<FreshOverlay>>]
    ELSE h

\* overlayCanvasRef.current.width = canvas.width; .height = canvas.height
\* (which clears the canvas and resets its context); drawOverlayText.
SizedOverlay(image) ==
    [width |-> image.width, height |-> image.height, text |-> TRUE,
     strokes |-> {}, strokeStyle |-> DefaultStyle, path |-> FALSE]

\* pc is the handler's position; canvas, data (originalData / data),
\* detection, skinColorString, region (faceRegion / fullFaceContour) and
\* fillStyle (the context's fill style at the silhouette fill) are the locals
\* of applyGreyFaceMask; ready is whether the nets were loaded when detection
\* was called; retColor is the returned skinColor; ops logs the operations on
\* the canvas; prior is where the previous upload stood when this one began.
IdleInvocation ==
    [pc |-> "idle", file |-> "none", canvas |-> <<>>, data |-> <<>>, ready |-> FALSE,
     detection |-> <<>>, error |-> "", skinColorString |-> <<>>, region |-> <<>>,
     fillStyle |-> <<>>, retColor |-> <<>>, ops |-> <<>>, prior |-> "none",
     scaleFactor |-> 0]

\* When a handler has ended, the locals of its applyGreyFaceMask call are
\* gone; what it returned or threw is kept for reference.
Ended(r, pc) ==
    [r EXCEPT !.pc = pc, !.data = <<>>, !.detection = <<>>, !.region = <<>>,
              !.skinColorString = <<>>, !.fillStyle = <<>>, !.ready = FALSE]

\* Positions inside a synchronous section: a handler that is there runs to
\* its next await or to its end before any other event is dispatched.
SyncPcs == {"start", "drawn", "snapshot", "desaturated", "resumed", "rejected",
            "noface", "detected", "sampled", "region", "threw", "filled",
            "erasedLeftEye", "erasedRightEye", "erasedNose", "erasedMouth", "boxed",
            "returned"}
\* Positions from which applyGreyFaceMask executes its next statements.
StepPcs == SyncPcs \ {"rejected", "noface", "threw", "returned"}
\* Positions at which applyGreyFaceMask has thrown.
ThrownPcs == {"rejected", "noface", "threw"}

Busy == \E i \in Invs : inv[i].pc \in SyncPcs

\* Variants whose Home has handleShare; page.tsx:190-725 alone has
\* capturePhotoDirectly.
ShareVariants == {"v2", "p0b"}
ShareIds == 1..MaxShares

\* calls: each handleShare call's position and the download URL it holds;
\* uploadProgress (<<>> is null) and isSharing are Home's state; storage is
\* the uploads the storage service has completed, gallery the documents of
\* the "images" collection, location the page shown, notice the last alert
\* or toast.
IdleShare ==
    [calls |-> [k \in ShareIds |-> [pc |-> "idle", url |-> <<>>]],
     uploadProgress |-> <<>>, isSharing |-> FALSE,
     storage |-> {}, gallery |-> {}, location |-> "/", notice |-> <<>>]

\* stream is the MediaStream of getUserMedia: "none", "live" or "stopped".
IdleCamera == [pc |-> "idle", stream |-> "none"]

Init ==
    /\ variant \in Variants
    /\ models = "loading"
    /\ home = InitialHome(variant)
    /\ inv = [i \in Invs |-> IdleInvocation]
    /\ share = IdleShare
    /\ camera = IdleCamera

\* ------------------------------------------------------- applyGreyFaceMask
\* Succ with the feature regions erased in place of the silhouette fill.
SuccEraseFirst(v, r) ==
    CASE r.pc = "start" -> "drawn"
      [] r.pc = "drawn" -> IF v \in SnapshotVariants THEN "snapshot"
                           ELSE IF v = "v3" THEN "desaturated" ELSE "awaiting"
      [] r.pc = "snapshot" -> "awaiting"
      [] r.pc = "desaturated" -> "awaiting"
      [] r.pc = "resumed" -> IF r.detection = <<>> THEN "noface" ELSE "detected"
      [] r.pc = "detected" -> IF v = "p0a" THEN "region" ELSE "sampled"
      [] r.pc = "sampled" -> IF v = "v1" THEN "threw"
                             ELSE IF v = "p0a" THEN "filled" ELSE "region"
      [] r.pc = "region" -> IF v = "p0a" THEN "sampled"
                            ELSE IF v \in EraseVariants THEN "erasedLeftEye" ELSE "filled"
      [] r.pc = "filled" -> IF v \in EraseVariants THEN "erasedLeftEye"
                            ELSE IF v = "p0a" THEN "boxed" ELSE "returned"
      [] r.pc = "erasedLeftEye" -> "erasedRightEye"
      [] r.pc = "erasedRightEye" -> "erasedNose"
      [] r.pc = "erasedNose" -> "erasedMouth"
      [] r.pc = "erasedMouth" -> "returned"
      [] r.pc = "boxed" -> "returned"

\* Succ with every variant building its region before it samples the colour.
SuccRegionFirst(v, r) ==
    CASE r.pc = "start" -> "drawn"
      [] r.pc = "drawn" -> IF v \in SnapshotVariants THEN "snapshot"
                           ELSE IF v = "v3" THEN "desaturated" ELSE "awaiting"
      [] r.pc = "snapshot" -> "awaiting"
      [] r.pc = "desaturated" -> "awaiting"
      [] r.pc = "resumed" -> IF r.detection = <<>> THEN "noface" ELSE "detected"
      [] r.pc = "detected" -> "region"
      [] r.pc = "sampled" -> IF v = "v1" THEN "threw" ELSE "filled"
      [] r.pc = "region" -> "sampled"
      [] r.pc = "filled" -> IF v \in EraseVariants THEN "erasedLeftEye"
                            ELSE IF v = "p0a" THEN "boxed" ELSE "returned"
      [] r.pc = "erasedLeftEye" -> "erasedRightEye"
      [] r.pc = "erasedRightEye" -> "erasedNose"
      [] r.pc = "erasedNose" -> "erasedMouth"
      [] r.pc = "erasedMouth" -> "returned"
      [] r.pc = "boxed" -> "returned"

\* Succ with the silhouette filled after the four erases.
SuccFillLast(v, r) ==
    CASE r.pc = "start" -> "drawn"
      [] r.pc = "drawn" -> IF v \in SnapshotVariants THEN "snapshot"
                           ELSE IF v = "v3" THEN "desaturated" ELSE "awaiting"
      [] r.pc = "snapshot" -> "awaiting"
      [] r.pc = "desaturated" -> "awaiting"
      [] r.pc = "resumed" -> IF r.detection = <<>> THEN "noface" ELSE "detected"
      [] r.pc = "detected" -> IF v = "p0a" THEN "region" ELSE "sampled"
      [] r.pc = "sampled" -> IF v = "v1" THEN "threw"
                             ELSE IF v = "p0a" THEN "filled" ELSE "region"
      [] r.pc = "region" -> IF v = "p0a" THEN "sampled"
                            ELSE IF v \in EraseVariants THEN "erasedLeftEye" ELSE "filled"
      [] r.pc = "filled" -> IF v = "p0a" THEN "boxed" ELSE "returned"
      [] r.pc = "erasedLeftEye" -> "erasedRightEye"
      [] r.pc = "erasedRightEye" -> "erasedNose"
      [] r.pc = "erasedNose" -> "erasedMouth"
      [] r.pc = "erasedMouth" -> "filled"
      [] r.pc = "boxed" -> "returned"

\* The position applyGreyFaceMask reaches next from r.pc.
Succ(v, r) ==
    CASE r.pc = "start" -> "drawn"
      [] r.pc = "drawn" -> IF v \in SnapshotVariants THEN "snapshot"
                           ELSE IF v = "v3" THEN "desaturated" ELSE "awaiting"
      [] r.pc = "snapshot" -> "awaiting"
      [] r.pc = "desaturated" -> "awaiting"
      [] r.pc = "resumed" -> IF r.detection = <<>> THEN "noface" ELSE "detected"
      [] r.pc = "detected" -> IF v = "p0a" THEN "region" ELSE "sampled"
      [] r.pc = "sampled" -> IF v = "v1" THEN "threw"
                             ELSE IF v = "p0a" THEN "filled" ELSE "region"
      [] r.pc = "region" -> IF v = "p0a" THEN "sampled" ELSE "filled"
      [] r.pc = "filled" -> IF v \in EraseVariants THEN "erasedLeftEye"
                            ELSE IF v = "p0a" THEN "boxed" ELSE "returned"
      [] r.pc = "erasedLeftEye" -> "erasedRightEye"
      [] r.pc = "erasedRightEye" -> "erasedNose"
      [] r.pc = "erasedNose" -> "erasedMouth"
      [] r.pc = "erasedMouth" -> "returned"
      [] r.pc = "boxed" -> "returned"

\* OnNoFace with the canvas wiped before the throw.
OnNoFaceCleared(r) ==
    [r EXCEPT !.pc = "noface", !.error = "No face detected", !.canvas = BlankCanvas]

\* if (!detection) throw new Error("No face detected")
OnNoFace(r) == [r EXCEPT !.pc = "noface", !.error = "No face detected"]

\* The invocation's locals after the statements that lead to position t;
\* loaded tells whether the nets are loaded when detection is called.
Apply(v, r, t, loaded) ==
    LET lm == r.detection[1].landmarks
    IN  CASE t = "drawn" ->
               [r EXCEPT !.pc = t, !.canvas = DrawImage(r.file),
                         !.ops = Append(@, "drawImage")]
          [] t = "snapshot" -> [r EXCEPT !.pc = t, !.data = r.canvas]
          [] t = "desaturated" ->
               [r EXCEPT !.pc = t, !.data = Desaturate(r.canvas),
                         !.canvas = Desaturate(r.canvas),
                         !.ops = Append(@, "desaturate")]
          [] t = "awaiting" -> [r EXCEPT !.pc = t, !.ready = loaded]
          [] t = "noface" -> OnNoFace(r)
          [] t = "sampled" ->
               IF SampleRaises(v, lm)
               THEN [r EXCEPT !.pc = "threw",
                              !.error = "Cannot read properties of undefined"]
               ELSE [r EXCEPT !.pc = t,
                         !.skinColorString =
                             SampleColour(v, IF v \in {"v1", "p0a"} THEN r.canvas ELSE r.data, lm),
                         !.ops = Append(@, "sample")]
          [] t = "threw" -> [r EXCEPT !.pc = t, !.error = "skinColor is not defined"]
          [] t = "region" -> [r EXCEPT !.pc = t, !.region = Silhouette(v, lm)]
          [] t = "filled" ->
               IF FillRaises(r.region)
               THEN [r EXCEPT !.pc = "threw",
                              !.error = "Cannot read properties of undefined"]
               ELSE [r EXCEPT !.pc = t,
                         !.canvas = FillSilhouette(v, r.canvas, r.region, r.skinColorString),
                         !.fillStyle = <<SetFillStyle(DefaultStyle, r.skinColorString)>>,
                         !.ops = Append(@, "fill")]
          [] t = "erasedLeftEye" ->
               [r EXCEPT !.pc = t,
                         !.canvas = eraseRegionSmart(v, r.canvas, leftEyeRegion(lm), 15),
                         !.ops = Append(@, "eraseLeftEye")]
          [] t = "erasedRightEye" ->
               [r EXCEPT !.pc = t,
                         !.canvas = eraseRegionSmart(v, r.canvas, rightEyeRegion(lm), 15),
                         !.ops = Append(@, "eraseRightEye")]
          [] t = "erasedNose" ->
               [r EXCEPT !.pc = t,
                         !.canvas = eraseRegionSmart(v, r.canvas, getNose(lm), 14),
                         !.ops = Append(@, "eraseNose")]
          [] t = "erasedMouth" ->
               [r EXCEPT !.pc = t,
                         !.canvas = eraseRegionSmart(v, r.canvas, getMouth(lm), 15),
                         !.ops = Append(@, "eraseMouth")]
          [] t = "boxed" ->
               [r EXCEPT !.pc = t, !.canvas = GreyBox(r.canvas, r.detection[1].box),
                         !.ops = Append(@, "fillRect")]
          [] t = "returned" ->
               [r EXCEPT !.pc = t,
                         !.retColor = IF v = "p0a" THEN <<>> ELSE <<r.skinColorString>>]
          [] OTHER -> [r EXCEPT !.pc = t]

\* applyGreyFaceMask run from r.pc to its next await, return or throw.
RECURSIVE RunSync(_, _, _)
RunSync(v, r, loaded) ==
    IF r.pc \in StepPcs THEN RunSync(v, Apply(v, r, Succ(v, r), loaded), loaded)
    ELSE r

\* What the awaited detectSingleFace(...).withFaceLandmarks() can settle to
\* for invocation r: a detection, undefined, or a rejection (the nets were
\* not loaded when it was called, or the inference failed).
Settled(r, faces) ==
    IF ~r.ready
    THEN {[r EXCEPT !.pc = "rejected", !.error = "load model before inference"]}
    ELSE {[r EXCEPT !.pc = "resumed", !.detection = <<face>>] : face \in faces}
         \cup {[r EXCEPT !.pc = "resumed", !.detection = <<>>],
               [r EXCEPT !.pc = "rejected", !.error = "inference failed"]}

\* ---------------------------------------------------------- Home handlers
\* image.onload before the call: setIsLoading(true).
OnLoadHome(v, h) ==
    IF v \in LoadingVariants THEN Commit(v, [h EXCEPT !.isLoading = TRUE]) ELSE h

\* The try block after the await: setMaskedImage, setSkinColor (p0a has no
\* skinColor), the overlay is sized and lettered if overlayCanvasRef.current
\* is set, and finally setIsLoading(false).
DeliverHome(v, h, r) ==
    Commit(v, [h EXCEPT !.maskedImage = <<toDataURL(r.canvas)>>,
                        !.skinColor = IF v = "p0a" THEN @ ELSE r.retColor[1],
                        !.overlay = IF @ = <<>> THEN @
                                    ELSE <<SizedOverlay(toDataURL(r.canvas))>>,
                        !.isLoading = IF v \in LoadingVariants THEN FALSE ELSE @])

\* CatchHome without the finally block: isLoading is left as it is.
CatchHomeNoFinally(v, h, r) ==
    IF v \in LoadingVariants
    THEN Commit(v, [h EXCEPT !.alertMsg = <<"Face detection or masking failed: ", r.error>>,
                             !.maskedImage = <<>>])
    ELSE [h EXCEPT !.alertMsg = <<r.error>>]

\* The catch block: alert, setMaskedImage(null) (v1 and p0a only alert), and
\* finally setIsLoading(false).
CatchHome(v, h, r) ==
    IF v \in LoadingVariants
    THEN Commit(v, [h EXCEPT !.alertMsg = <<"Face detection or masking failed: ", r.error>>,
                             !.maskedImage = <<>>,
                             !.isLoading = FALSE])
    ELSE [h EXCEPT !.alertMsg = <<r.error>>]

\* The rest of the onload handler once applyGreyFaceMask has returned or thrown.
FinishHome(v, h, r) == IF r.pc = "returned" THEN DeliverHome(v, h, r) ELSE CatchHome(v, h, r)
FinishInv(r) == Ended(r, IF r.pc = "returned" THEN "done" ELSE "failed")

\* useEffect(load): loadModels() resolves.
LoadModelsDone ==
    /\ ~Busy
    /\ models = "loading"
    /\ models' = "loaded"
    /\ home' = IF variant \in LoadingVariants
               THEN Commit(variant, [home EXCEPT !.isLoading = FALSE])
               ELSE home
    /\ UNCHANGED <<share, camera, variant, inv>>

\* useEffect(load): loadModels() rejects (v1 and p0a do not catch it).
LoadModelsFailed ==
    /\ ~Busy
    /\ models = "loading"
    /\ models' = "failed"
    /\ home' = IF variant \in LoadingVariants
               THEN Commit(variant,
                           [home EXCEPT !.isLoading = FALSE,
                                        !.alertMsg = <<"Failed to load face detection models.">>])
               ELSE home
    /\ UNCHANGED <<share, camera, variant, inv>>

\* handleImageUpload: the user picks a file and readAsDataURL starts.
Upload(i, files) ==
    /\ ~Busy
    /\ inv[i].pc = "idle"
    /\ IF i = 1 THEN TRUE ELSE inv[i - 1].pc # "idle"
    /\ \E f \in files :
          inv' = [inv EXCEPT ![i].pc = "reading", ![i].file = f,
                             ![i].prior = IF i = 1 THEN "none" ELSE inv[i - 1].pc]
    /\ UNCHANGED <<share, camera, variant, models, home>>

\* reader.onloadend: setImage / setSelectedImage, and the image starts to
\* decode.  In v1 and p0a the decode is started by the effect on
\* selectedImage, which does not run when the value is the one already set,
\* and all uploads share the one <img> element, so giving it a new src
\* abandons a decode still under way.
ReaderLoadEnd(i) ==
    /\ ~Busy
    /\ inv[i].pc = "reading"
    /\ home' = Commit(variant, [home EXCEPT !.image = <<inv[i].file>>])
    /\ inv' = IF variant \in LoadingVariants
              THEN [inv EXCEPT ![i].pc = "decoding"]
              ELSE IF home.image = <<inv[i].file>>
                   THEN [inv EXCEPT ![i].pc = "unchanged"]
                   ELSE [j \in Invs |->
                           IF j = i THEN [inv[j] EXCEPT !.pc = "decoding"]
                           ELSE IF inv[j].pc = "decoding"
                                THEN [inv[j] EXCEPT !.pc = "superseded"]
                                ELSE inv[j]]
    /\ UNCHANGED <<share, camera, variant, models>>

\* image.onerror (v1 and p0a register no such handler).
ImageError(i) ==
    /\ ~Busy
    /\ inv[i].pc = "decoding"
    /\ inv[i].file = "corrupt"
    /\ inv' = [inv EXCEPT ![i].pc = "loaderror"]
    /\ home' = IF variant \in LoadingVariants
               THEN Commit(variant, [home EXCEPT !.isLoading = FALSE,
                                                 !.alertMsg = <<"Failed to load image.">>])
               ELSE home
    /\ UNCHANGED <<share, camera, variant, models>>

\* -------- one statement group at a time (a single upload under the lens)
\* image.onload: setIsLoading(true) and applyGreyFaceMask(image) is entered,
\* which creates its canvas.
ImageLoad(i) ==
    /\ ~Busy
    /\ inv[i].pc = "decoding"
    /\ inv[i].file # "corrupt"
    /\ home' = OnLoadHome(variant, home)
    /\ inv' = [inv EXCEPT ![i].pc = "start", ![i].canvas = BlankCanvas]
    /\ UNCHANGED <<share, camera, variant, models>>

\* applyGreyFaceMask runs on to its next position.
PipelineStep(i) ==
    /\ inv[i].pc \in StepPcs
    /\ inv' = [inv EXCEPT ![i] = Apply(variant, @, Succ(variant, @), models = "loaded")]
    /\ UNCHANGED <<share, camera, variant, models, home>>

\* The awaited detection settles and applyGreyFaceMask resumes.
DetectResolve(i, faces) ==
    /\ ~Busy
    /\ inv[i].pc = "awaiting"
    /\ \E r \in Settled(inv[i], faces) : inv' = [inv EXCEPT ![i] = r]
    /\ UNCHANGED <<share, camera, variant, models, home>>

\* applyGreyFaceMask has returned: the try block and finally.
Deliver(i) ==
    /\ inv[i].pc = "returned"
    /\ home' = DeliverHome(variant, home, inv[i])
    /\ inv' = [inv EXCEPT ![i] = FinishInv(@)]
    /\ UNCHANGED <<share, camera, variant, models>>

\* applyGreyFaceMask has thrown: the catch block and finally.
Catch(i) ==
    /\ inv[i].pc \in ThrownPcs
    /\ home' = CatchHome(variant, home, inv[i])
    /\ inv' = [inv EXCEPT ![i] = FinishInv(@)]
    /\ UNCHANGED <<share, camera, variant, models>>

\* -------- one event-loop task at a time (several uploads in flight)
\* applyGreyFaceMask as it stands at its await for file f.
AwaitingRun(v, f, loaded) ==
    RunSync(v, [IdleInvocation EXCEPT !.pc = "start", !.file = f, !.canvas = BlankCanvas],
            loaded)

\* applyGreyFaceMask at its await for each of Home's files: computed once.
AwaitingRuns ==
    {[c |-> c, r |-> AwaitingRun(c[1], c[2], c[3])] : c \in Variants \X ImageKinds \X BOOLEAN}

\* The runs of applyGreyFaceMask from its await to its return or throw, for
\* every way the detection can settle on Home's files: computed once.
ResumedRuns ==
    UNION {{[v |-> c[1], s |-> s, r |-> RunSync(c[1], s, c[3])] :
               s \in Settled(AwaitingRun(c[1], c[2], c[3]), UIFaces)} :
           c \in Variants \X ImageKinds \X BOOLEAN}

ResumedRun(v, s) ==
    LET e == CHOOSE e \in ResumedRuns : e.v = v /\ e.s = [s EXCEPT !.prior = "none"]
    IN  [e.r EXCEPT !.prior = s.prior]

\* image.onload, run to the await inside applyGreyFaceMask.
OnImageLoad(i) ==
    /\ inv[i].pc = "decoding"
    /\ inv[i].file # "corrupt"
    /\ home' = OnLoadHome(variant, home)
    /\ inv' = [inv EXCEPT ![i] =
                  [(CHOOSE e \in AwaitingRuns :
                       e.c = <<variant, inv[i].file, models = "loaded">>).r
                      EXCEPT !.prior = inv[i].prior]]
    /\ UNCHANGED <<share, camera, variant, models>>

\* The awaited detection settles: applyGreyFaceMask runs to its return or
\* throw, and the onload handler to its end.
OnDetectSettled(i, faces) ==
    /\ inv[i].pc = "awaiting"
    /\ \E s \in Settled(inv[i], faces) :
          /\ home' = FinishHome(variant, home, ResumedRun(variant, s))
          /\ inv' = [inv EXCEPT ![i] = FinishInv(ResumedRun(variant, s))]
    /\ UNCHANGED <<share, camera, variant, models>>

\* ---------------------------------------------------------- specifications
Files == ImageKinds \cup {"corrupt"}

\* The files the i-th upload chooses from: a corrupt one, or an image that
\* differs from the previous upload's.
FilesOf(i) == {IF i % 2 = 1 THEN "flat" ELSE "grad", "corrupt"}

\* Home with up to MaxInvocations uploads in flight, each event-loop task
\* one step.
Next ==
    \/ LoadModelsDone
    \/ LoadModelsFailed
    \/ \E i \in Invs : Upload(i, FilesOf(i))
    \/ \E i \in Invs : ReaderLoadEnd(i)
    \/ \E i \in Invs : ImageError(i)
    \/ \E i \in Invs : OnImageLoad(i)
    \/ \E i \in Invs : OnDetectSettled(i, UIFaces)

Spec == Init /\ [][Next]_vars

\* One upload, on every face, each statement group of applyGreyFaceMask one step.
NextPipe ==
    \/ LoadModelsDone
    \/ LoadModelsFailed
    \/ Upload(1, Files)
    \/ ReaderLoadEnd(1)
    \/ ImageError(1)
    \/ ImageLoad(1)
    \/ PipelineStep(1)
    \/ DetectResolve(1, AllFaces)
    \/ Deliver(1)
    \/ Catch(1)

SpecPipe == Init /\ [][NextPipe]_vars

\* ---------------------------------------------------------------------
\* One upload whose detection has fewer landmark positions than the 68 the
\* pipeline indexes.
Truncated(face, n) == [face EXCEPT !.landmarks = SubSeq(@, 1, n)]

\* Detections with no position, with positions 0..2, 0..12 and all 68.
SparseLengths == {0, 3, 13, 68}
SparseFaces ==
    {Truncated(Face(sh, <<1, 1>>, f), n) : sh \in BrowShapes, f \in Fractions,
                                          n \in SparseLengths}

NextSparse ==
    \/ LoadModelsDone
    \/ LoadModelsFailed
    \/ Upload(1, Files)
    \/ ReaderLoadEnd(1)
    \/ ImageError(1)
    \/ ImageLoad(1)
    \/ PipelineStep(1)
    \/ DetectResolve(1, SparseFaces)
    \/ Deliver(1)
    \/ Catch(1)

SpecSparse == Init /\ [][NextSparse]_vars

\* ---------------------------------------------------------------------
\* The compositor's operations called on their own: the fill of a region
\* (paintFaceWithSkinColor, or the fill statements of applyGreyFaceMask) and
\* eraseRegionSmart, each with a region given by the caller.

\* Regions a caller can pass: no point, one point, a segment, a triangle.
CallRegions ==
    {<<>>, <<Pt(4, 4)>>, <<Pt(4, 4), Pt(12, 12)>>, <<Pt(2, 2), Pt(14, 2), Pt(8, 14)>>}
CallColours == {RgbString(200, 150, 100), RgbString(10, 20, 30)}
\* scaleFactor arguments, in tenths: the default 1 and the 1.4 and 1.5 of
\* applyGreyFaceMask.
CallScales == {10, 14, 15}

InitOps ==
    /\ variant \in Variants
    /\ models = "loaded"
    /\ home = InitialHome(variant)
    /\ \E f \in ImageKinds, region \in CallRegions, colour \in CallColours :
          inv = [i \in Invs |->
                    IF i = 1
                    THEN [IdleInvocation EXCEPT !.pc = "called", !.file = f,
                                                !.canvas = DrawImage(f),
                                                !.region = region,
                                                !.skinColorString = colour]
                    ELSE IdleInvocation]
    /\ share = IdleShare
    /\ camera = IdleCamera

\* The fill of inv[i].region with inv[i].skinColorString.
FillRegion(i) ==
    /\ inv[i].pc = "called"
    /\ inv' = [inv EXCEPT ![i] =
                  IF FillRaises(@.region)
                  THEN [@ EXCEPT !.pc = "threw",
                                 !.error = "Cannot read properties of undefined"]
                  ELSE [@ EXCEPT !.pc = "filled",
                                 !.canvas = FillSilhouette(variant, @, inv[i].region,
                                                           inv[i].skinColorString),
                                 !.fillStyle = <<SetFillStyle(DefaultStyle,
                                                              inv[i].skinColorString)>>,
                                 !.ops = Append(@, "fill")]]
    /\ UNCHANGED <<share, camera, variant, models, home>>

\* eraseRegionSmart(ctx, inv[i].region, scale10 / 10); the record keeps the
\* scaleFactor argument (in tenths).
EraseRegion(i, scale10) ==
    /\ variant \in EraseVariants
    /\ inv[i].pc = "called"
    /\ inv' = [inv EXCEPT ![i] =
                  [@ EXCEPT !.pc = "erased", !.scaleFactor = scale10,
                            !.canvas = eraseRegionSmart(variant, @, inv[i].region, scale10),
                            !.ops = Append(@, "erase")]]
    /\ UNCHANGED <<share, camera, variant, models, home>>

NextOps ==
    \/ FillRegion(1)
    \/ \E scale10 \in CallScales : EraseRegion(1, scale10)

SpecOps == InitOps /\ [][NextOps]_vars

\* ---------------------------------------------------------------------
\* handleShare (page.tsx:367-413, part_000:376-407) on a Home that shows a
\* masked image.

\* Home after one upload of picture f has been masked and delivered.
MaskedHome(v, f) ==
    LET e == CHOOSE e \in ResumedRuns :
                 /\ e.v = v /\ e.s.file = f /\ e.s.pc = "resumed"
                 /\ e.s.detection # <<>> /\ e.r.pc = "returned"
    IN  DeliverHome(v, [InitialHome(v) EXCEPT !.image = <<f>>], e.r)

InitShare ==
    /\ variant \in ShareVariants
    /\ models = "loaded"
    /\ \E f \in ImageKinds : home = MaskedHome(variant, f)
    /\ inv = [i \in Invs |-> IdleInvocation]
    /\ share = IdleShare
    /\ camera = IdleCamera

\* snapshot.bytesTransferred / snapshot.totalBytes * 100 of a progress event.
ProgressValues == {50, 100}

\* The catch block of handleShare, and in part_000 its finally.
ShareCaught(v, sh, k) ==
    IF v = "v2"
    THEN [sh EXCEPT !.calls[k].pc = "failed", !.uploadProgress = <<>>,
                    !.notice = <<"Failed to share the image. Please try again.">>]
    ELSE [sh EXCEPT !.calls[k].pc = "failed", !.isSharing = FALSE,
                    !.notice = <<"Failed to share image">>]

\* An await inside the completion callback of uploadTask.on rejects: the
\* callback's promise is rejected and nobody handles it.
ShareRejected(v, sh, k) ==
    IF v = "v2" THEN [sh EXCEPT !.calls[k].pc = "rejected"] ELSE ShareCaught(v, sh, k)

\* The Share button is clicked (part_000 disables it while isSharing).
ShareClick(k) ==
    /\ variant \in ShareVariants
    /\ share.location = "/"
    /\ home.maskedImage # <<>>
    /\ share.calls[k].pc = "idle"
    /\ IF k = 1 THEN TRUE ELSE share.calls[k - 1].pc # "idle"
    /\ variant = "p0b" => ~share.isSharing
    /\ share' = [share EXCEPT !.calls[k].pc = "fetching",
                              !.isSharing = IF variant = "p0b" THEN TRUE ELSE @]
    /\ UNCHANGED <<variant, models, home, inv, camera>>

\* fetch(maskedImage) and response.blob() settle; on success the upload of
\* the blob starts.
FetchSettled(k, ok) ==
    /\ share.location = "/"
    /\ share.calls[k].pc = "fetching"
    /\ share' = IF ok THEN [share EXCEPT !.calls[k].pc = "uploading"]
                ELSE ShareCaught(variant, share, k)
    /\ UNCHANGED <<variant, models, home, inv, camera>>

\* page.tsx:382-388: a state_changed event of the upload task.
UploadProgressed(k, progress) ==
    /\ variant = "v2"
    /\ share.location = "/"
    /\ share.calls[k].pc = "uploading"
    /\ share' = [share EXCEPT !.uploadProgress = <<progress>>]
    /\ UNCHANGED <<variant, models, home, inv, camera>>

\* UploadFailed with the handler going on to ask for the download URL.
UploadFailedProceeds(k) ==
    /\ share.location = "/"
    /\ share.calls[k].pc = "uploading"
    /\ share' = [share EXCEPT !.calls[k].pc = "gettingURL"]
    /\ UNCHANGED <<variant, models, home, inv, camera>>

\* The upload fails: the error callback (page.tsx:389-394) or the catch of
\* the rejected uploadBytes.
UploadFailed(k) ==
    /\ share.location = "/"
    /\ share.calls[k].pc = "uploading"
    /\ share' = IF variant = "v2"
                THEN [share EXCEPT !.calls[k].pc = "failed", !.uploadProgress = <<>>,
                                   !.notice = <<"Upload failed. Please try again.">>]
                ELSE ShareCaught(variant, share, k)
    /\ UNCHANGED <<variant, models, home, inv, camera>>

\* The upload completes and the handler asks for its download URL.
UploadCompleted(k) ==
    /\ share.location = "/"
    /\ share.calls[k].pc = "uploading"
    /\ share' = [share EXCEPT !.calls[k].pc = "gettingURL", !.storage = @ \cup {k}]
    /\ UNCHANGED <<variant, models, home, inv, camera>>

\* getDownloadURL settles; on success addDoc is called with the URL.
DownloadURLSettled(k, ok) ==
    /\ share.location = "/"
    /\ share.calls[k].pc = "gettingURL"
    /\ share' = IF ok THEN [share EXCEPT !.calls[k].pc = "addingDoc", !.calls[k].url = <<k>>]
                ELSE ShareRejected(variant, share, k)
    /\ UNCHANGED <<variant, models, home, inv, camera>>

\* addDoc settles; on success the document is in the collection, the user
\* is told so and the page goes to the gallery.
AddDocSettled(k, ok) ==
    /\ share.location = "/"
    /\ share.calls[k].pc = "addingDoc"
    /\ share' = IF ok
                THEN [share EXCEPT !.calls[k].pc = "done",
                                   !.gallery = @ \cup {[image_url |-> share.calls[k].url[1]]},
                                   !.uploadProgress = <<>>,
                                   !.isSharing = FALSE,
                                   !.notice = <<"Image shared successfully!">>,
                                   !.location = "/gallery"]
                ELSE ShareRejected(variant, share, k)
    /\ UNCHANGED <<variant, models, home, inv, camera>>

NextShare ==
    \/ \E k \in ShareIds : ShareClick(k)
    \/ \E k \in ShareIds, ok \in BOOLEAN : FetchSettled(k, ok)
    \/ \E k \in ShareIds, progress \in ProgressValues : UploadProgressed(k, progress)
    \/ \E k \in ShareIds : UploadFailed(k)
    \/ \E k \in ShareIds : UploadCompleted(k)
    \/ \E k \in ShareIds, ok \in BOOLEAN : DownloadURLSettled(k, ok)
    \/ \E k \in ShareIds, ok \in BOOLEAN : AddDocSettled(k, ok)

SpecShare == InitShare /\ [][NextShare]_vars

\* ---------------------------------------------------------------------
\* capturePhotoDirectly (page.tsx:468-520).

\* "Take a Photo" is clicked; without navigator.mediaDevices the handler
\* alerts and returns, otherwise it awaits getUserMedia.
CaptureClick(supported) ==
    /\ variant = "v2"
    /\ ~Busy
    /\ camera.pc = "idle"
    /\ camera' = [camera EXCEPT !.pc = IF supported THEN "requesting" ELSE "unsupported"]
    /\ UNCHANGED <<variant, models, home, inv, share>>

\* getUserMedia settles: on success the stream is live and video.play() is
\* awaited; a rejection goes to the catch block.
GetUserMediaSettled(ok) ==
    /\ ~Busy
    /\ camera.pc = "requesting"
    /\ camera' = IF ok THEN [camera EXCEPT !.pc = "playing", !.stream = "live"]
                 ELSE [camera EXCEPT !.pc = "failed"]
    /\ UNCHANGED <<variant, models, home, inv, share>>

\* video.play() settles.  When it resolves the frame is drawn (getContext
\* may yield no context, and drawImage then throws), the tracks are stopped,
\* setImage gets the frame and the frame starts to decode as the picture of
\* invocation i; a rejection or a throw goes to the catch block, which
\* alerts.
PlaySettled(i, played, drawn) ==
    /\ ~Busy
    /\ camera.pc = "playing"
    /\ inv[i].pc = "idle"
    /\ IF i = 1 THEN TRUE ELSE inv[i - 1].pc # "idle"
    /\ IF played /\ drawn
       THEN /\ camera' = [camera EXCEPT !.pc = "captured", !.stream = "stopped"]
            /\ \E f \in ImageKinds :
                  /\ home' = Commit(variant, [home EXCEPT !.image = <<f>>])
                  /\ inv' = [inv EXCEPT ![i].pc = "decoding", ![i].file = f,
                                        ![i].prior = IF i = 1 THEN "none" ELSE inv[i - 1].pc]
       ELSE /\ camera' = [camera EXCEPT !.pc = "failed"]
            /\ UNCHANGED <<home, inv>>
    /\ UNCHANGED <<variant, models, share>>

\* Home with its uploads and one capture.
NextCamera ==
    \/ Next
    \/ \E supported \in BOOLEAN : CaptureClick(supported)
    \/ \E ok \in BOOLEAN : GetUserMediaSettled(ok)
    \/ \E i \in Invs, played \in BOOLEAN, drawn \in BOOLEAN : PlaySettled(i, played, drawn)

SpecCamera == Init /\ [][NextCamera]_vars

\* ---------------------------------------------------------------------
\* The brush of page.tsx:727-997, the one Home whose overlay canvas has mouse
\* handlers; the canvas receives events only while it is rendered.
BrushVariants == {"v3"}

\* handleMouseDown: setDrawing(true); ctx.strokeStyle = skinColor (an invalid
\* value is ignored); beginPath; moveTo.
MouseDown ==
    /\ variant \in BrushVariants
    /\ ~Busy
    /\ home.overlay # <<>>
    /\ home' = [home EXCEPT !.drawing = TRUE,
                            !.overlay[1].strokeStyle = SetFillStyle(@, home.skinColor),
                            !.overlay[1].path = TRUE]
    /\ UNCHANGED <<variant, models, inv, share, camera>>

\* handleMouseMove: if (!drawing) return; lineTo; stroke.  lineTo on an empty
\* path only starts it, and nothing is stroked.
MouseMove ==
    /\ variant \in BrushVariants
    /\ ~Busy
    /\ home.overlay # <<>>
    /\ home.drawing
    /\ home' = [home EXCEPT !.overlay[1].strokes =
                                IF home.overlay[1].path
                                THEN @ \cup {home.overlay[1].strokeStyle} ELSE @,
                            !.overlay[1].path = TRUE]
    /\ UNCHANGED <<variant, models, inv, share, camera>>

\* handleMouseUp, handleMouseLeave: setDrawing(false).
MouseUp ==
    /\ variant \in BrushVariants
    /\ ~Busy
    /\ home.overlay # <<>>
    /\ home.drawing
    /\ home' = [home EXCEPT !.drawing = FALSE]
    /\ UNCHANGED <<variant, models, inv, share, camera>>

NextBrush ==
    \/ Next
    \/ MouseDown
    \/ MouseMove
    \/ MouseUp

SpecBrush == Init /\ [][NextBrush]_vars

\* ---------------------------------------------------------------------
\* Home with two pictures, from uploads or from one capture, where every
\* callback the browser owes is eventually delivered: the file read ends, the
\* image decodes or fails to, the awaited detection settles, getUserMedia and
\* play() settle.  Model loading and the user's clicks are left free.
LiveInvs == {i \in Invs : i <= 2}

NextLive ==
    \/ LoadModelsDone
    \/ LoadModelsFailed
    \/ \E i \in LiveInvs : Upload(i, FilesOf(i))
    \/ \E i \in LiveInvs : ReaderLoadEnd(i)
    \/ \E i \in LiveInvs : ImageError(i)
    \/ \E i \in LiveInvs : OnImageLoad(i)
    \/ \E i \in LiveInvs : OnDetectSettled(i, UIFaces)
    \/ \E supported \in BOOLEAN : CaptureClick(supported)
    \/ \E ok \in BOOLEAN : GetUserMediaSettled(ok)
    \/ \E i \in LiveInvs, played \in BOOLEAN, drawn \in BOOLEAN : PlaySettled(i, played, drawn)

Delivery ==
    /\ \A i \in LiveInvs :
          /\ WF_vars(ReaderLoadEnd(i))
          /\ WF_vars(ImageError(i))
          /\ WF_vars(OnImageLoad(i))
          /\ WF_vars(OnDetectSettled(i, UIFaces))
    /\ WF_vars(\E ok \in BOOLEAN : GetUserMediaSettled(ok))
    /\ WF_vars(\E i \in LiveInvs, played \in BOOLEAN, drawn \in BOOLEAN :
                  PlaySettled(i, played, drawn))

SpecLive == Init /\ [][NextLive]_vars /\ Delivery

\* ------------------------------------------------------ polygon predicates
Sgn(n) == IF n > 0 THEN 1 ELSE IF n < 0 THEN -1 ELSE 0
Min2(a, b) == IF a < b THEN a ELSE b
Max2(a, b) == IF a < b THEN b ELSE a

\* p lies on the closed segment a-b.
OnSegment(a, b, p) ==
    /\ Cross(a, b, p) = 0
    /\ Min2(a.x, b.x) <= p.x /\ p.x <= Max2(a.x, b.x)
    /\ Min2(a.y, b.y) <= p.y /\ p.y <= Max2(a.y, b.y)

\* The closed segments a-b and c-d have a point in common.
SegmentsIntersect(a, b, c, d) ==
    \/ /\ Sgn(Cross(a, b, c)) * Sgn(Cross(a, b, d)) < 0
       /\ Sgn(Cross(c, d, a)) * Sgn(Cross(c, d, b)) < 0
    \/ OnSegment(a, b, c) \/ OnSegment(a, b, d)
    \/ OnSegment(c, d, a) \/ OnSegment(c, d, b)

\* The closed polygon's n-th edge ends at PolyNext(poly, n).
PolyNext(poly, n) == poly[(n % Len(poly)) + 1]

\* Corners of pixel k's square, in 1/(2*Sub) pixel.
PixelLo(k) == Pt(2 * Sub * PX(k), 2 * Sub * PY(k))
PixelHi(k) == Pt(2 * Sub * (PX(k) + 1), 2 * Sub * (PY(k) + 1))
InSquare(p, k) ==
    /\ PixelLo(k).x <= p.x /\ p.x <= PixelHi(k).x
    /\ PixelLo(k).y <= p.y /\ p.y <= PixelHi(k).y

\* The segment a-b touches the square of pixel k: an end lies in it, or the
\* segment meets one of its diagonals.
SegmentMeetsPixel(a, b, k) ==
    \/ InSquare(a, k) \/ InSquare(b, k)
    \/ SegmentsIntersect(a, b, PixelLo(k), PixelHi(k))
    \/ SegmentsIntersect(a, b, Pt(PixelLo(k).x, PixelHi(k).y), Pt(PixelHi(k).x, PixelLo(k).y))

EdgeMeetsPixel(poly, k) ==
    \E n \in 1..Len(poly) : SegmentMeetsPixel(Fine(poly[n]), Fine(PolyNext(poly, n)), k)

\* Signed crossings of the edge a -> b over the vertical ray from c.
TurnEdge(a, b, c) ==
    IF a.x <= c.x /\ b.x > c.x /\ Cross(a, b, c) > 0 THEN 1
    ELSE IF b.x <= c.x /\ a.x > c.x /\ Cross(a, b, c) < 0 THEN -1
    ELSE 0

RECURSIVE Turns(_, _, _)
Turns(poly, c, n) ==
    IF n > Len(poly) THEN 0
    ELSE TurnEdge(Fine(poly[n]), Fine(PolyNext(poly, n)), c) + Turns(poly, c, n + 1)

\* Pixel k lies strictly outside (inside) the polygon: no edge touches its
\* square and the polygon does not (does) wind around it.
PixelOutside(poly, k) == ~EdgeMeetsPixel(poly, k) /\ Turns(poly, Centre(k), 1) = 0
PixelInside(poly, k) == ~EdgeMeetsPixel(poly, k) /\ Turns(poly, Centre(k), 1) # 0

\* ------------------------------------------------------------------- C1
\* The canvas operations of a complete run of each variant, in order.
Erases == <<"eraseLeftEye", "eraseRightEye", "eraseNose", "eraseMouth">>
OpOrder(v) ==
    <<"drawImage">> \o (IF v = "v3" THEN <<"desaturate">> ELSE <<>>) \o <<"sample", "fill">>
    \o (IF v \in {"v2", "p0b", "p1"} THEN Erases
        ELSE IF v = "p0a" THEN <<"fillRect">> ELSE <<>>)

IsPrefix(s, t) == Len(s) <= Len(t) /\ \A n \in 1..Len(s) : s[n] = t[n]

\* C1 (as amended): the canvas operations of a run of applyGreyFaceMask happen
\* in the order draw, desaturate (page.tsx:727-997 only), sample, fill, and
\* then the four erases only in the variants that erase (after the fill the
\* desaturating variant returns and part_000:21-189 draws its grey box); the
\* colour is sampled from pixels equal to the canvas at that moment; a run
\* that returns has performed all of its variant's operations.
C1_OperationOrder ==
    \A i \in Invs :
        /\ IsPrefix(inv[i].ops, OpOrder(variant))
        /\ inv[i].pc \in {"returned", "done"} => inv[i].ops = OpOrder(variant)
        /\ inv[i].pc = "sampled" =>
              inv[i].skinColorString =
                  SampleColour(variant, inv[i].canvas, inv[i].detection[1].landmarks)

\* C1 witness: an erasing variant has returned with draw, sample, fill and
\* the four erases behind it.
C1_Witness ==
    \E i \in Invs : variant = "p1" /\ inv[i].pc = "returned" /\ Len(inv[i].ops) = 7

\* C1 (as stated): every run that received a detection and returned has
\* drawn, desaturated if its variant does, sampled, filled and then erased
\* the four feature regions.
C1_ErasesFollowFill ==
    \A i \in Invs :
        inv[i].pc = "returned" =>
            inv[i].ops = <<"drawImage">> \o (IF variant = "v3" THEN <<"desaturate">> ELSE <<>>)
                         \o <<"sample", "fill">> \o Erases

\* ------------------------------------------------------------------- C2
\* Positions of an upload that will take no further step.
FinalPcs == {"done", "failed", "loaderror", "superseded", "unchanged"}

\* C2: when an image was submitted while the previous one awaited detection
\* and both have completed, maskedImage and skinColor are those of the image
\* submitted last.
C2_LatestWins ==
    \A i \in Invs \ {1} :
        (/\ inv[i].prior = "awaiting"
         /\ inv[i].pc = "done"
         /\ \A j \in Invs : (j < i => inv[j].pc \in FinalPcs) /\ (j > i => inv[j].pc = "idle"))
        => /\ home.maskedImage = <<toDataURL(inv[i].canvas)>>
           /\ variant # "p0a" => home.skinColor = inv[i].retColor[1]

\* ------------------------------------------------------------------- C3
\* applyGreyFaceMask has thrown "No face detected".
NoFaceAt(r) == r.pc = "noface" \/ (r.pc = "failed" /\ r.error = "No face detected")

\* The canvas as it is when detection is called on file f.
SurfaceAtDetection(v, f) == IF v = "v3" THEN Desaturate(DrawImage(f)) ELSE DrawImage(f)

\* C3 (as amended): when the provider returns no detection the run ends in
\* NoFaceDetected with no fill and no erase applied, and the canvas is
\* pixel-identical to its state when detection was called: the drawn image,
\* desaturated in the variant that desaturates before detecting.
C3_NoFaceKeepsSurface ==
    \A i \in Invs :
        NoFaceAt(inv[i]) =>
            /\ inv[i].canvas = SurfaceAtDetection(variant, inv[i].file)
            /\ \A n \in 1..Len(inv[i].ops) : inv[i].ops[n] \in {"drawImage", "desaturate"}

\* C3 witness: the desaturating variant has ended in NoFaceDetected.
C3_Witness ==
    \E i \in Invs : variant = "v3" /\ inv[i].pc = "failed" /\ inv[i].error = "No face detected"

\* C3 (as stated): in NoFaceDetected the canvas is pixel-identical to its
\* state right after the source image was drawn.
C3_SurfaceAsDrawn ==
    \A i \in Invs : NoFaceAt(inv[i]) => inv[i].canvas = DrawImage(inv[i].file)

\* ------------------------------------------------------------------- C4
FailureCauses == {"No face detected", "load model before inference", "inference failed"}

\* The component state of Home (what it renders and branches on).
ComponentState(h) ==
    [isLoading |-> h.isLoading, image |-> h.image, maskedImage |-> h.maskedImage,
     skinColor |-> h.skinColor]

\* C4: whenever a masking attempt fails from one of the three causes, the
\* caller's resulting state differs from the state either other cause would
\* have left it in.
C4_ThreeOutcomes ==
    [][\A i \in Invs :
          (inv[i].pc \in ThrownPcs /\ inv[i].error \in FailureCauses /\ inv'[i].pc = "failed")
          => \A e \in FailureCauses \ {inv[i].error} :
                ComponentState(CatchHome(variant, home, [inv[i] EXCEPT !.error = e]))
                # ComponentState(home')]_vars

\* ------------------------------------------------------------------- C5
\* The phase of the mask pipeline an upload is in.
Phase(r) ==
    CASE r.pc = "start" -> "Start"
      [] r.pc \in {"drawn", "snapshot", "desaturated", "awaiting", "resumed"} ->
             "Surface-Initialized"
      [] r.pc = "detected" -> "Detected"
      [] r.pc = "region" -> "Regions-Built"
      [] r.pc = "sampled" -> "Color-Sampled"
      [] r.pc \in {"filled", "erasedLeftEye", "erasedRightEye", "erasedNose", "erasedMouth",
                   "boxed"} -> "Composited"
      [] r.pc \in {"returned", "done"} -> "Done"
      [] NoFaceAt(r) -> "NoFaceDetected"
      [] r.pc \in {"rejected", "threw", "failed"} /\ ~NoFaceAt(r) -> "Failed"
      [] OTHER -> "NotStarted"

SpecOrder ==
    <<"Start", "Surface-Initialized", "Detected", "Regions-Built", "Color-Sampled",
      "Composited", "Done">>
SampleFirstOrder ==
    <<"Start", "Surface-Initialized", "Detected", "Color-Sampled", "Regions-Built",
      "Composited", "Done">>
CodeOrder(v) == IF v = "p0a" THEN SpecOrder ELSE SampleFirstOrder

InOrder(order, ph) == \E n \in 1..Len(order) : order[n] = ph
Rank(order, ph) == CHOOSE n \in 1..Len(order) : order[n] = ph

\* A change of phase from ph to qh that the linear machine with the given
\* order allows: one phase forward, NoFaceDetected from Surface-Initialized
\* only, any other failure from a phase of the order, nothing after an end.
Linear(order, ph, qh) ==
    \/ ph = "NotStarted" /\ qh = "Start"
    \/ InOrder(order, ph) /\ InOrder(order, qh) /\ Rank(order, qh) = Rank(order, ph) + 1
    \/ ph = "Surface-Initialized" /\ qh = "NoFaceDetected"
    \/ InOrder(order, ph) /\ ph # "Done" /\ qh = "Failed"

C6_DetectionYieldsSurfaceAndColor ==
    \A i \in Invs :
        inv[i].detection # <<>> =>
            /\ inv[i].pc \notin ThrownPcs
            /\ inv[i].pc = "returned" =>
                  /\ inv[i].retColor # <<>>
                  /\ inv[i].fillStyle = <<ParseColor(inv[i].retColor[1])>>

\* ------------------------------------------------------------------- C7
\* C7: when an image was uploaded after the previous one had been masked,
\* and its own invocation has failed (no face detected, or the image did not
\* load), neither the earlier masked image nor the earlier sampled colour is
\* left in Home.
C7_NoCarryOver ==
    \A i \in Invs \ {1} :
        (/\ inv[i].prior = "done"
         /\ inv[i].pc = "loaderror" \/ (inv[i].pc = "failed" /\ inv[i].error = "No face detected")
         /\ \A j \in Invs \ {i} : inv[j].pc \in FinalPcs \cup {"idle"})
        => /\ home.maskedImage = <<>>
           /\ home.skinColor = InitialHome(variant).skinColor

\* ------------------------------------------------------------------- C8
\* C8: the silhouette fill leaves every pixel strictly outside the region's
\* polygon with the R, G, B and A it had before the fill.
C8_FillKeepsOutside ==
    [][\A i \in Invs :
          (inv[i].pc # "filled" /\ inv'[i].pc = "filled")
          => \A k \in PixelIdx :
                PixelOutside(inv[i].region, k) => inv'[i].canvas[k] = inv[i].canvas[k]]_vars

\* C8 witness: a fill has painted a pixel of the drawn picture while another
\* pixel lies strictly outside the region.
C8_Witness ==
    \E i \in Invs :
        /\ inv[i].pc = "filled"
        /\ Len(inv[i].region) >= 2
        /\ \E k \in PixelIdx : PixelOutside(inv[i].region, k)
        /\ \E k \in PixelIdx :
              /\ inv[i].canvas[k] = inv[i].fillStyle[1]
              /\ inv[i].canvas[k] # SurfaceAtDetection(variant, inv[i].file)[k]

\* ------------------------------------------------------------------- C9
\* C9: after the silhouette fill, every pixel strictly inside the silhouette
\* polygon carries the fill colour, whichever fill routine painted it.
C9_SilhouetteFullyPainted ==
    \A i \in Invs :
        inv[i].pc = "filled" =>
            \A k \in PixelIdx :
                PixelInside(inv[i].region, k) => inv[i].canvas[k] = inv[i].fillStyle[1]

\* ------------------------------------------------------------------ C10
\* Strictly increasing x along a sequence of points.
IncreasingX(pts) == \A n \in 1..(Len(pts) - 1) : pts[n].x < pts[n + 1].x

\* Landmarks in canonical frontal-face order.
Canonical(lm) ==
    /\ IncreasingX(getJawOutline(lm))
    /\ IncreasingX(getLeftEyeBrow(lm))
    /\ IncreasingX(getRightEyeBrow(lm))
    /\ getLeftEyeBrow(lm)[5].x < getRightEyeBrow(lm)[1].x

\* The outline the silhouette's points lie on, walked once around: the jaw
\* from image-left to image-right, then the raised brows from right to left.
ForeheadOffset(v) == IF v \in {"v1", "p0a"} THEN ForeheadOffset50 ELSE ForeheadOffset60
OutlineRing(v, lm) ==
    getJawOutline(lm) \o Reverse(Raise(getRightEyeBrow(lm), ForeheadOffset(v)))
    \o Reverse(Raise(getLeftEyeBrow(lm), ForeheadOffset(v)))

\* p and q are neighbours on the ring.
Adjacent(ring, p, q) ==
    \E n \in 1..Len(ring) : {p, q} = {ring[n], PolyNext(ring, n)}

\* Two edges of the closed polygon that share no end point.
NonAdjacentEdges(poly, m, n) ==
    m < n /\ n # m + 1 /\ ~(m = 1 /\ n = Len(poly))

IsSimple(poly) ==
    \A m, n \in 1..Len(poly) :
        NonAdjacentEdges(poly, m, n)
        => ~SegmentsIntersect(poly[m], PolyNext(poly, m), poly[n], PolyNext(poly, n))

\* C10: for landmarks in canonical order the silhouette region is a simple
\* polygon: consecutive points are neighbouring landmarks of the outline and
\* no two non-adjacent edges intersect.
C10_SilhouetteSimple ==
    \A i \in Invs :
        (inv[i].pc = "region" /\ Canonical(inv[i].detection[1].landmarks))
        => /\ \A n \in 1..Len(inv[i].region) :
                 Adjacent(OutlineRing(variant, inv[i].detection[1].landmarks),
                          inv[i].region[n], PolyNext(inv[i].region, n))
           /\ IsSimple(inv[i].region)

\* ------------------------------------------------------------------ C11
Clamp(n, lo, hi) == IF n < lo THEN lo ELSE IF n > hi THEN hi ELSE n

\* The pixel at the rounded coordinates of p, clamped into the buffer.
ClampedPixel(px, p) ==
    px[Clamp(MathRound(p.y), 0, ImgH - 1) * ImgW + Clamp(MathRound(p.x), 0, ImgW - 1)]

\* C11: for every detection the colour sampler reads the pixels at the
\* rounded cheek coordinates clamped into the buffer, and each channel of the
\* sampled colour is an integer in 0..255.
C11_SamplerInBounds ==
    \A i \in Invs :
        (inv[i].pc = "sampled" /\ variant \in SnapshotVariants) =>
            LET lm == inv[i].detection[1].landmarks
                a == ClampedPixel(inv[i].canvas, lm[CheekLeft + 1])
                b == ClampedPixel(inv[i].canvas, lm[CheekRight + 1])
            IN  \A c \in 1..3 :
                    /\ inv[i].skinColorString[c + 1] \in 0..255
                    /\ inv[i].skinColorString[c + 1] = RoundDiv(a[c] + b[c], 2)

\* ------------------------------------------------------------------ C12
\* n is the pixel coordinate nearest to the coordinate c/Sub (a tie goes up).
NearestPixel(c, n) == -Sub < 2 * Sub * n - 2 * c /\ 2 * Sub * n - 2 * c <= Sub

\* v is the mean of a and b rounded to an integer (a tie goes up).
RoundedMean2(a, b, v) == 2 * v - (a + b) \in {0, 1}

\* The pixels of px at the landmarks p and q, when both lie in the image.
PixelsAt(px, p, q) ==
    {<<px[y1 * ImgW + x1], px[y2 * ImgW + x2]>> :
        <<x1, y1, x2, y2>> \in
            {c \in (0..(ImgW - 1)) \X (0..(ImgH - 1)) \X (0..(ImgW - 1)) \X (0..(ImgH - 1)) :
                /\ NearestPixel(p.x, c[1]) /\ NearestPixel(p.y, c[2])
                /\ NearestPixel(q.x, c[3]) /\ NearestPixel(q.y, c[4])}}

InBounds(p) == 0 <= p.x /\ p.x < ImgW * Sub /\ 0 <= p.y /\ p.y < ImgH * Sub

\* The sample points of each variant's sampler.
SamplePoints(v, lm) ==
    IF v = "p0a" THEN {lm[CheekLeft + 1]}
    ELSE IF v = "v1" THEN {lm[CheekLeft + 1], lm[EyeSampleA + 1], lm[EyeSampleB + 1]}
    ELSE {lm[CheekLeft + 1], lm[CheekRight + 1]}

\* C13: on a surface whose pixels all have one RGB, sampling at in-bounds
\* points, fractional ones included, returns exactly that RGB (the colour
\* samplers: the cheek mean and sampleSkinColor).
C13_UniformSurfaceSample ==
    \A i \in Invs :
        (/\ inv[i].pc = "sampled" /\ variant # "v1"
         /\ \A k \in PixelIdx : inv[i].canvas[k] = inv[i].canvas[0]
         /\ \A p \in SamplePoints(variant, inv[i].detection[1].landmarks) : InBounds(p))
        => inv[i].skinColorString =
               <<"rgb", inv[i].canvas[0][1], inv[i].canvas[0][2], inv[i].canvas[0][3]>>

\* ------------------------------------------------------------------ C14
\* An upload whose canvas has just been desaturated.
JustDesaturated(r) == r.pc = "desaturated"

\* C14: desaturating the desaturated buffer again gives the same buffer.
C14_DesaturateIdempotent ==
    \A i \in Invs : JustDesaturated(inv[i]) => Desaturate(inv[i].canvas) = inv[i].canvas

\* C14 witness: a coloured picture has been desaturated.
C14_Witness ==
    \E i \in Invs :
        /\ JustDesaturated(inv[i]) /\ inv[i].file = "grad"
        /\ inv[i].canvas # DrawImage(inv[i].file)

\* ------------------------------------------------------------------ C15
\* v is the integer nearest to the unweighted average of r, g and b.
NearestThird(r, g, b, v) == 3 * v - (r + g + b) \in {-1, 0, 1}

\* C15: after desaturation R, G and B of every pixel are the unweighted
\* average of the pixel's original R, G and B (as the 8-bit channel holds
\* it), and alpha and the surface's pixels grid are unchanged.
C15_DesaturateAverages ==
    \A i \in Invs :
        JustDesaturated(inv[i]) =>
            /\ DOMAIN inv[i].canvas = DOMAIN DrawImage(inv[i].file)
            /\ \A k \in PixelIdx :
                  LET o == ImagePixel(inv[i].file, PX(k), PY(k))
                      d == inv[i].canvas[k]
                  IN  /\ NearestThird(o[1], o[2], o[3], d[1])
                      /\ d[2] = d[1] /\ d[3] = d[1]
                      /\ d[4] = o[4]

\* C15 witness: a pixel whose channels differed has been desaturated.
C15_Witness ==
    \E i \in Invs :
        /\ JustDesaturated(inv[i])
        /\ \E k \in PixelIdx :
              LET o == ImagePixel(inv[i].file, PX(k), PY(k))
              IN  o[1] # o[2] /\ (o[1] + o[2] + o[3]) % 3 # 0

\* ------------------------------------------------------------------ C16
\* R + G + B of the uploaded picture at pixel (x, y); 0 outside the picture.
RgbSumAt(file, x, y) ==
    IF x \in 0..(ImgW - 1) /\ y \in 0..(ImgH - 1)
    THEN LET o == ImagePixel(file, x, y) IN o[1] + o[2] + o[3]
    ELSE 0

\* v is the integer-rounded mean, over n sample points, of the points'
\* unweighted averages of R, G and B, whose R + G + B add up to total.
LumaMean(total, n, v) == -3 * n < 6 * n * v - 2 * total /\ 6 * n * v - 2 * total <= 3 * n

\* The pixel columns and rows the monochrome pipeline samples.
CheekPixels(lm) ==
    <<MathRound(lm[CheekLeft + 1].x), MathRound(lm[CheekLeft + 1].y),
      MathRound(lm[CheekRight + 1].x), MathRound(lm[CheekRight + 1].y)>>

\* The monochrome pipeline has sampled, both sample points being pixels of
\* the buffer.
MonoSampled(r) ==
    /\ variant = "v3" /\ r.pc = "sampled"
    /\ LET c == CheekPixels(r.detection[1].landmarks)
       IN  c[1] \in 0..(ImgW - 1) /\ c[3] \in 0..(ImgW - 1)
           /\ c[2] \in 0..(ImgH - 1) /\ c[4] \in 0..(ImgH - 1)

\* C16: the luma sampler returns (v, v, v) with v the integer-rounded mean
\* over its sample points of each point's unweighted average of R, G and B,
\* and the monochrome pipeline, reading one channel of the desaturated
\* buffer, returns the luma sample of its own sample points.
C16_LumaEqualsMonochrome ==
    \A i \in Invs :
        LET r == inv[i]
            lm == r.detection[1].landmarks
        IN  /\ (variant = "v1" /\ r.pc = "sampled") =>
                  \E v \in 0..255 :
                      /\ r.skinColorString = RgbString(v, v, v)
                      /\ LumaMean(RgbSumAt(r.file, ToLong(lm[CheekLeft + 1].x), ToLong(lm[CheekLeft + 1].y))
                                  + RgbSumAt(r.file, ToLong(lm[EyeSampleA + 1].x), ToLong(lm[EyeSampleA + 1].y))
                                  + RgbSumAt(r.file, ToLong(lm[EyeSampleB + 1].x), ToLong(lm[EyeSampleB + 1].y)),
                                  3, v)
            /\ MonoSampled(r) =>
                  \E v \in 0..255 :
                      /\ r.skinColorString = RgbString(v, v, v)
                      /\ LET c == CheekPixels(lm)
                         IN  LumaMean(RgbSumAt(r.file, c[1], c[2]) + RgbSumAt(r.file, c[3], c[4]), 2, v)

\* ------------------------------------------------------------------ C17
\* The feature regions the erasing variants erase, each with the scaleFactor
\* argument (in tenths) of its erase.
FeatureRegions(lm) ==
    {<<leftEyeRegion(lm), 15>>, <<rightEyeRegion(lm), 15>>, <<getNose(lm), 14>>,
     <<getMouth(lm), 15>>}

\* What an erased pixel holds: opaque black in v2, nothing in p0b and p1.
EraseResult(v) == IF v = "v2" THEN <<0, 0, 0, 255>> ELSE Transparent

\* The picture as drawn with only the silhouette filled, with only feature f
\* erased, and with f erased first and the silhouette filled afterwards.
FillOnly(v, r) == FillSilhouette(v, r.data, r.region, r.skinColorString)
EraseOnly(v, r, f) == eraseRegionSmart(v, r.data, f[1], f[2])
EraseThenFill(v, r, f) == FillSilhouette(v, EraseOnly(v, r, f), r.region, r.skinColorString)

\* The pixels both the fill and the erase of f change.
Overlap(v, r, f) ==
    {k \in PixelIdx : FillOnly(v, r)[k] # r.data[k] /\ EraseOnly(v, r, f)[k] # r.data[k]}

\* The run has filled and erased and still holds its picture and regions.
FilledAndErased(r) == variant \in EraseVariants /\ r.pc = "returned"

\* C17: on the overlap of the silhouette and an erased feature region, with a
\* fill colour other than the erase result, fill-then-erase leaves the erase
\* result and erase-then-fill leaves something else.
C17_FillEraseOrderMatters ==
    \A i \in Invs :
        LET r == inv[i]
        IN  (FilledAndErased(r) /\ r.fillStyle[1] # EraseResult(variant)) =>
                \A f \in FeatureRegions(r.detection[1].landmarks) :
                    \A k \in Overlap(variant, r, f) :
                        /\ r.canvas[k] = EraseResult(variant)
                        /\ EraseThenFill(variant, r, f)[k] # r.canvas[k]

\* C17 witness: the silhouette was filled with a colour other than the erase
\* result and a feature erased afterwards shares a pixel with it, which the
\* other order would leave in the fill colour.
C17_Witness ==
    \E i \in Invs :
        /\ FilledAndErased(inv[i])
        /\ inv[i].fillStyle[1] # EraseResult(variant)
        /\ \E f \in FeatureRegions(inv[i].detection[1].landmarks) :
              \E k \in Overlap(variant, inv[i], f) :
                  EraseThenFill(variant, inv[i], f)[k] = inv[i].fillStyle[1]

\* ------------------------------------------------------------------ C18
\* A fill or an erase has been called with a region of fewer than 2 points.
ShortRegionCall(r) == r.pc \in {"filled", "erased", "threw"} /\ Len(r.region) < 2

\* C18: a fill or an erase of a region with fewer than 2 points returns
\* without raising and leaves every pixel as it was.
C18_ShortRegionNoOp ==
    \A i \in Invs :
        ShortRegionCall(inv[i]) =>
            /\ inv[i].pc # "threw"
            /\ inv[i].canvas = DrawImage(inv[i].file)

\* ------------------------------------------------------------------ C19
RECURSIVE SumOf(_, _, _)
\* The sum of the x (c = 1) or y (c = 2) coordinates of points i.. of region.
SumOf(region, c, i) ==
    IF i > Len(region) THEN 0
    ELSE (IF c = 1 THEN region[i].x ELSE region[i].y) + SumOf(region, c, i + 1)

\* Point p of region scaled about the region's centroid by scale10 / 10,
\* in 1/(20 * Len(region)) of the region's unit.
ScaledPoint(region, scale10, p) ==
    LET n == Len(region)
    IN  Pt(2 * (scale10 * n * p.x - (scale10 - 10) * SumOf(region, 1, 1)),
           2 * (scale10 * n * p.y - (scale10 - 10) * SumOf(region, 2, 1)))

\* The centre of pixel k in the unit of ScaledPoint.
ScaledCentre(region, k) ==
    Pt(10 * Len(region) * Sub * (2 * PX(k) + 1), 10 * Len(region) * Sub * (2 * PY(k) + 1))

RECURSIVE ScaledWinding(_, _, _, _)
\* The winding number of the scaled region's edges i.. around pixel k's centre.
ScaledWinding(region, scale10, k, i) ==
    IF i > Len(region) THEN 0
    ELSE WindEdge(ScaledPoint(region, scale10, region[i]),
                  ScaledPoint(region, scale10, region[(i % Len(region)) + 1]),
                  ScaledCentre(region, k))
         + ScaledWinding(region, scale10, k, i + 1)

\* Pixel k lies in the region scaled about its centroid.
InScaledPolygon(region, scale10, k) ==
    Len(region) >= 1 /\ ScaledWinding(region, scale10, k, 1) # 0

\* C19: an erase with scaleFactor s > 1 changes exactly the pixels of the
\* region scaled about its centroid by s, and leaves the region's points as
\* they were.
C19_EraseScalesAboutCentroid ==
    [][\A i \in Invs :
          (inv[i].pc = "called" /\ inv'[i].pc = "erased" /\ inv'[i].scaleFactor > 10)
          => /\ inv'[i].region = inv[i].region
             /\ \A k \in PixelIdx :
                   (inv'[i].canvas[k] # inv[i].canvas[k])
                   <=> InScaledPolygon(inv[i].region, inv'[i].scaleFactor, k)]_vars

\* ------------------------------------------------------------------ C20
\* The eye whose region the erase leading to pc has erased.
EyeErased(pc, lm) == IF pc = "erasedLeftEye" THEN getLeftEye(lm) ELSE getRightEye(lm)

\* C20: for landmarks in canonical order, every pixel of the polygon of an
\* eye's own 6 points is erased by the erase of that eye's region (the eye
\* points followed by the reversed brow points).
C20_EyeRegionCoversEye ==
    \A i \in Invs :
        LET r == inv[i]
        IN  (r.pc \in {"erasedLeftEye", "erasedRightEye"}
             /\ Canonical(r.detection[1].landmarks)) =>
                \A k \in PixelIdx :
                    InPath(EyeErased(r.pc, r.detection[1].landmarks), k)
                    => r.canvas[k] = EraseResult(variant)

\* ------------------------------------------------------------------ C21
\* C21: whenever applyGreyFaceMask has called the detection, loadModels had
\* resolved before the call.
C21_DetectionAfterModelsLoaded ==
    \A i \in Invs : inv[i].pc = "awaiting" => inv[i].ready

\* ------------------------------------------------------------------ C23
\* The detection of run r lacks a landmark position its variant samples.
SamplePositionMissing(v, r) ==
    /\ r.detection # <<>>
    /\ \E n \in SampleIndices(v) : n >= Len(r.detection[1].landmarks)

\* The colour of the picture at the centre of the canvas.
CentreColour(r) ==
    LET o == ImagePixel(r.file, ImgW \div 2, ImgH \div 2)
    IN  RgbString(o[1], o[2], o[3])

\* C23: when a landmark position the sampler reads is unavailable, the
\* sampled colour is the one at the canvas centre and the run does not throw.
C23_FallbackToCentre ==
    \A i \in Invs :
        SamplePositionMissing(variant, inv[i]) =>
            /\ inv[i].pc # "threw"
            /\ inv[i].pc = "sampled" => inv[i].skinColorString = CentreColour(inv[i])

\* ------------------------------------------------------------------ C25
\* A masking invocation is in flight: applyGreyFaceMask has been called and
\* its onload handler has not reached the end of its try / catch.
InFlight(r) == r.pc \in SyncPcs \cup {"awaiting"}

\* C25: in the variants that keep isLoading, isLoading is true whenever a
\* masking invocation is in flight.
C25_LoadingWhileInFlight ==
    \A i \in Invs :
        (variant \in LoadingVariants /\ InFlight(inv[i])) => home.isLoading

\* ------------------------------------------------------------------ C28
\* C28: every gallery record carries the download URL of an upload the
\* storage has completed, and the page goes to the gallery only in the step
\* that adds the record of such an upload; a failed upload leaves neither.
C28_RecordAfterUpload ==
    [][/\ \A g \in share'.gallery : g.image_url \in share'.storage
       /\ (share.location = "/" /\ share'.location = "/gallery") =>
             \E k \in share.storage :
                 /\ share.calls[k].pc = "addingDoc" /\ share'.calls[k].pc = "done"
                 /\ [image_url |-> k] \in share'.gallery
       /\ \A k \in ShareIds :
             (share.calls[k].pc = "uploading" /\ share'.calls[k].pc = "failed") =>
                 /\ share'.gallery = share.gallery
                 /\ share'.location = share.location]_vars

\* C28 witness: one share has failed at its upload and another has added
\* its record and gone to the gallery.
C28_Witness ==
    /\ share.location = "/gallery"
    /\ share.gallery # {}
    /\ \E k \in ShareIds : share.calls[k].pc = "failed" /\ k \notin share.storage

\* ------------------------------------------------------------------ C29
ShareEndedPcs == {"failed", "rejected", "done"}

\* C29: once a share has ended and none is under way, uploadProgress is null
\* and isSharing is false.
C29_IndicatorReset ==
    (/\ \E k \in ShareIds : share.calls[k].pc \in ShareEndedPcs
     /\ \A k \in ShareIds : share.calls[k].pc \in ShareEndedPcs \cup {"idle"})
    => (share.uploadProgress = <<>> /\ ~share.isSharing)

\* ------------------------------------------------------------------ C30
\* C30: once capturePhotoDirectly has ended with a stream obtained, the
\* stream's tracks are stopped.
C30_StreamReleased ==
    (camera.pc \in {"captured", "failed"} /\ camera.stream # "none")
    => camera.stream = "stopped"

\* ------------------------------------------------------------------ C27
\* C27: in the variants with an overlay canvas, when a masking invocation
\* has succeeded the overlay canvas has the width and height of the masked
\* canvas and carries the overlay text.
C27_OverlaySizedAndLettered ==
    [][\A i \in Invs :
          (variant \in LoadingVariants /\ inv[i].pc # "done" /\ inv'[i].pc = "done")
          => /\ home'.overlay # <<>>
             /\ home'.overlay[1].width = home'.maskedImage[1].width
             /\ home'.overlay[1].height = home'.maskedImage[1].height
             /\ home'.overlay[1].text]_vars

\* ------------------------------------------------------------------ C22
\* The stroke in progress on the overlay canvas, if there is one.
StrokeInProgress == home.overlay # <<>> /\ home.drawing

\* C22: brush strokes never interleave with a masking invocation in flight:
\* no stroke is in progress on the overlay while an invocation is between
\* its start and its completion, and no completion wipes or repaints the
\* overlay under a stroke in progress.
C22_StrokesApartFromInvocations ==
    [][/\ StrokeInProgress' => \A i \in Invs : ~InFlight(inv'[i])
       /\ \A i \in Invs :
             (StrokeInProgress /\ InFlight(inv[i]) /\ ~InFlight(inv'[i]))
             => home'.overlay = home.overlay]_vars

\* ------------------------------------------------------------------ C24
\* The colours returned by the invocations whose masked image is displayed.
DisplayedColours ==
    {ParseColor(inv[i].retColor[1]) :
        i \in {j \in Invs : /\ inv[j].pc = "done"
                            /\ home.maskedImage = <<toDataURL(inv[j].canvas)>>}}

\* C24: every stroke on the overlay is drawn in the colour sampled by the
\* invocation whose masked image is displayed, and a stroke that starts is
\* given that colour.
C24_StrokeInDisplayedColour ==
    [][home'.overlay # <<>> =>
          /\ home'.overlay[1].strokes \subseteq DisplayedColours'
          /\ (~home.drawing /\ home'.drawing)
             => home'.overlay[1].strokeStyle \in DisplayedColours']_vars

\* ------------------------------------------------------------------ C26
\* The ways an upload or a captured frame ends in the variants that keep
\* isLoading: masked, rejected (no face, detection error) or not decodable.
LoadingEnds == {"done", "failed", "loaderror"}

\* C26: in the variants that keep isLoading, every picture an upload or a
\* capture has started on is eventually finished with isLoading false,
\* whether it ends masked, without a face, with a detection error or with an
\* image load error.
C26_LeavesLoading ==
    \A i \in Invs :
        (variant \in LoadingVariants /\ inv[i].pc \in {"reading", "decoding", "awaiting"})
        ~> (inv[i].pc \in LoadingEnds /\ ~home.isLoading)

\* C26: an upload and a later one have ended, one of them with an error
\* and one with a masked image, and isLoading is false.
C26_Witness ==
    /\ variant \in LoadingVariants
    /\ ~home.isLoading
    /\ \E i, j \in Invs : inv[i].pc = "done" /\ inv[j].pc \in {"failed", "loaderror"}

=============================================================================
